---- MODULE Spec2Model ----
(***************************************************************************)
(* A model of the PythonRayTracing repository: the row-parallel and the   *)
(* sequential renderer (RayTracing.py), the recursive ray tracer          *)
(* trace_ray with the scene objects' intersection code (SceneObjects.py), *)
(* and the construction of lights.                                         *)
(***************************************************************************)
EXTENDS Integers, Sequences, FiniteSets, TLC

VARIABLES
    \* ---- the two renderers, run one after the other on the same scene ----
    width, height, max_workers, \* arguments of render_sequential / render_parallel_rows
    scene,          \* the scene of the render, as the map primary ray -> outcome of trace_ray
    seqPc,          \* render_sequential: "run", "done" (returned) or "raised"
    seqX, seqY,     \* render_sequential: the loop variables x and y
    seqPlots,       \* the win.plot calls render_sequential has made, in order
    parPc,          \* render_parallel_rows: "idle", "compute", "shutdown", "draw", "done", "raised"
    task,           \* state of the future of each row: "pending", "running", "finished"
    future,         \* the result a finished row task holds
    yielded,        \* the rows whose future as_completed has yielded, in that order
    row_results,    \* the pre-sized buffer of render_parallel_rows
    writes,         \* number of stores made into each slot of row_results
    drawX, drawY,   \* render_parallel_rows: position of the drawing loops
    parPlots,       \* the win.plot calls render_parallel_rows has made, in order
    \* ---- one call of trace_ray ----
    call,           \* the arguments: O, D, t_min, t_max, scene, depth
    tracePc,        \* "call", "returned" or "raised"
    result,         \* what the call ended with
    \* ---- the construction of the lights of a scene ----
    lights,         \* the lights constructed so far, in order
    attempt,        \* the last constructor call and what it ended with
    \* ---- a Plane and the calls of its methods ----
    plane,          \* the arguments of Plane(...) and the object it built
    planeCall,      \* the last call of intersect or normal_at and what it returned
    \* ---- one call of ComputeLighting ----
    lighting,       \* the arguments: P, N, scene, V, s
    lightingPc,     \* "call" or "returned"
    lightingOut     \* the intensity returned, in units of 1/IntensityDen

renderVars == <<width, height, max_workers, scene, seqPc, seqX, seqY, seqPlots,
                parPc, task, future, yielded, row_results, writes, drawX, drawY, parPlots>>

traceVars == <<call, tracePc, result>>
lightVars == <<lights, attempt>>
planeVars == <<plane, planeCall>>
lightingVars == <<lighting, lightingPc, lightingOut>>

vars == <<renderVars, traceVars, lightVars, planeVars, lightingVars>>

-----------------------------------------------------------------------------
(* Bounds of the model *)

MaxW == 2          \* largest image width
MaxH == 2          \* largest image height
MaxWorkers == 2    \* largest max_workers

-----------------------------------------------------------------------------
(* Values *)

None == <<"None">>                    \* Python's None, in a slot that holds a row otherwise
NoRay == <<0, 0, 0>>                  \* no primary ray: their z component is positive

\* what a call of trace_ray ends with: a colour, or the exception it lets through
Returned(color) == [raised |-> FALSE, color |-> color]
ZeroDivisionError == [raised |-> TRUE, color |-> <<0, 0, 0>>]

BACKGROUND == <<255, 255, 255>>       \* trace_ray's colour for a ray that hits nothing
RED == <<255, 0, 0>>                  \* the default object colour

RenderColors == {BACKGROUND, RED}

-----------------------------------------------------------------------------
(* ColorUtilities.rgb_to_hex: "#%02x%02x%02x" % color *)

HexDigit == <<"0", "1", "2", "3", "4", "5", "6", "7",
              "8", "9", "a", "b", "c", "d", "e", "f">>

\* %02x of a channel in 0..255: two lower-case hexadecimal digits
Hex2(n) == HexDigit[(n \div 16) + 1] \o HexDigit[(n % 16) + 1]

rgb_to_hex(color) == "#" \o Hex2(color[1]) \o Hex2(color[2]) \o Hex2(color[3])

-----------------------------------------------------------------------------
(* The primary ray of a pixel *)

\* canvas_to_viewport(x_canvas, y_canvas, 1, 1, 1, Cw, Ch) for x_canvas = x - Cw/2 and
\* y_canvas = Ch/2 - y, multiplied by 2*Cw*Ch to stay in the integers: the caller
\* normalizes the vector, which removes the positive factor.
canvas_to_viewport(x, y, Cw, Ch) ==
    <<(2 * x - Cw) * Ch, (Ch - 2 * y) * Cw, 2 * Cw * Ch>>

PrimaryRays(w, h) == {canvas_to_viewport(x, y, w, h) : x \in 0..(w - 1), y \in 0..(h - 1)}

\* trace_ray(origin, direction, 1.0, inf, scene) for the primary ray of pixel (x, y):
\* a colour, or the exception an object's intersect raises.
TracePixel(x, y) == scene[canvas_to_viewport(x, y, width, height)]

\* render_row(y, ...): the row's colours, or the exception of the first pixel whose
\* trace raises.
render_row(y) ==
    IF \E x \in 0..(width - 1) : TracePixel(x, y).raised
    THEN [raised |-> TRUE, y |-> y, row_colors |-> <<>>]
    ELSE [raised |-> FALSE, y |-> y,
          row_colors |-> [i \in 1..width |-> rgb_to_hex(TracePixel(i - 1, y).color)]]

Rows == 0..(height - 1)

\* for y in range(height): for x in range(width): the position after (x, y)
NextPixelSkipRow(x, y) == IF x + 1 < width THEN <<x + 1, y>> ELSE <<0, y + 2>>
NextPixel(x, y) == IF x + 1 < width THEN <<x + 1, y>> ELSE <<0, y + 1>>

-----------------------------------------------------------------------------
(* render_sequential *)

SeqPlot ==
    /\ seqPc = "run"
    /\ ~TracePixel(seqX, seqY).raised
    /\ seqPlots' = Append(seqPlots, [x |-> seqX, y |-> seqY,
                                     color |-> rgb_to_hex(TracePixel(seqX, seqY).color),
                                     by |-> "main"])
    /\ seqX' = NextPixel(seqX, seqY)[1]
    /\ seqY' = NextPixel(seqX, seqY)[2]
    /\ seqPc' = IF NextPixel(seqX, seqY)[2] < height THEN "run" ELSE "done"
    /\ UNCHANGED <<width, height, max_workers, scene, parPc, task, future, yielded,
                   row_results, writes, drawX, drawY, parPlots,
                   traceVars, lightVars, planeVars, lightingVars>>

SeqRaise ==
    /\ seqPc = "run"
    /\ TracePixel(seqX, seqY).raised
    /\ seqPc' = "raised"
    /\ UNCHANGED <<width, height, max_workers, scene, seqX, seqY, seqPlots, parPc, task,
                   future, yielded, row_results, writes, drawX, drawY, parPlots,
                   traceVars, lightVars, planeVars, lightingVars>>

-----------------------------------------------------------------------------
(* render_parallel_rows *)

\* row_results = [None] * height, then one future per row is submitted
Submit ==
    /\ seqPc \in {"done", "raised"}
    /\ parPc = "idle"
    /\ parPc' = "compute"
    /\ row_results' = [y \in Rows |-> None]
    /\ task' = [y \in Rows |-> "pending"]
    /\ UNCHANGED <<width, height, max_workers, scene, seqPc, seqX, seqY, seqPlots,
                   future, yielded, writes, drawX, drawY, parPlots,
                   traceVars, lightVars, planeVars, lightingVars>>

Running == {y \in Rows : task[y] = "running"}
Pending == {y \in Rows : task[y] = "pending"}

\* a free worker of the pool takes the oldest pending work item
TaskStart ==
    /\ parPc \in {"compute", "shutdown"}
    /\ Pending # {}
    /\ Cardinality(Running) < max_workers
    /\ LET y == CHOOSE r \in Pending : \A q \in Pending : r <= q
       IN task' = [task EXCEPT ![y] = "running"]
    /\ UNCHANGED <<width, height, max_workers, scene, seqPc, seqX, seqY, seqPlots,
                   parPc, future, yielded, row_results, writes, drawX, drawY, parPlots,
                   traceVars, lightVars, planeVars, lightingVars>>

\* a worker ends render_row(y, ...): the future holds its result or its exception
TaskFinish(y) ==
    /\ parPc \in {"compute", "shutdown"}
    /\ task[y] = "running"
    /\ task' = [task EXCEPT ![y] = "finished"]
    /\ future' = [future EXCEPT ![y] = render_row(y)]
    /\ UNCHANGED <<width, height, max_workers, scene, seqPc, seqX, seqY, seqPlots,
                   parPc, yielded, row_results, writes, drawX, drawY, parPlots,
                   traceVars, lightVars, planeVars, lightingVars>>

\* row_results[y] = row_colors, y being the row number the task returned; n is the
\* number of futures as_completed yielded before this one
StoreRowByArrival(buffer, y, row_colors, n) == [buffer EXCEPT ![n] = row_colors]
StoreRow(buffer, y, row_colors, n) == [buffer EXCEPT ![y] = row_colors]

Yielded == {yielded[i] : i \in 1..Len(yielded)}

\* for future in as_completed(futures): y, row_colors = future.result(); store
Collect(f) ==
    /\ parPc = "compute"
    /\ task[f] = "finished"
    /\ f \notin Yielded
    /\ ~future[f].raised
    /\ yielded' = Append(yielded, f)
    /\ row_results' = StoreRow(row_results, future[f].y, future[f].row_colors,
                               Len(yielded))
    /\ writes' = [writes EXCEPT ![future[f].y] = @ + 1]
    /\ UNCHANGED <<width, height, max_workers, scene, seqPc, seqX, seqY, seqPlots,
                   parPc, task, future, drawX, drawY, parPlots,
                   traceVars, lightVars, planeVars, lightingVars>>

\* future.result() re-raises the exception of the row task: the with block is left
\* through the exception, and the executor's shutdown waits for the other tasks
CollectRaise(f) ==
    /\ parPc = "compute"
    /\ task[f] = "finished"
    /\ f \notin Yielded
    /\ future[f].raised
    /\ parPc' = "shutdown"
    /\ UNCHANGED <<width, height, max_workers, scene, seqPc, seqX, seqY, seqPlots,
                   task, future, yielded, row_results, writes, drawX, drawY, parPlots,
                   traceVars, lightVars, planeVars, lightingVars>>

\* as_completed is exhausted once it has yielded every future
AllYieldedAfterFirst == yielded # <<>>
AllYielded == Yielded = Rows

\* the end of the with block: every future was yielded, the pool is shut down
ExitPool ==
    /\ parPc = "compute"
    /\ AllYielded
    /\ parPc' = "draw"
    /\ UNCHANGED <<width, height, max_workers, scene, seqPc, seqX, seqY, seqPlots,
                   task, future, yielded, row_results, writes, drawX, drawY, parPlots,
                   traceVars, lightVars, planeVars, lightingVars>>

\* the exception leaves render_parallel_rows once shutdown(wait=True) has returned
ExitPoolRaise ==
    /\ parPc = "shutdown"
    /\ \A y \in Rows : task[y] = "finished"
    /\ parPc' = "raised"
    /\ UNCHANGED <<width, height, max_workers, scene, seqPc, seqX, seqY, seqPlots,
                   task, future, yielded, row_results, writes, drawX, drawY, parPlots,
                   traceVars, lightVars, planeVars, lightingVars>>

\* for y, row_colors in enumerate(row_results): for x, color_hex in enumerate(row_colors)
DrawPlot ==
    /\ parPc = "draw"
    /\ drawY < height
    /\ row_results[drawY] # None
    /\ parPlots' = Append(parPlots, [x |-> drawX, y |-> drawY,
                                     color |-> row_results[drawY][drawX + 1],
                                     by |-> "main"])
    /\ drawX' = NextPixel(drawX, drawY)[1]
    /\ drawY' = NextPixel(drawX, drawY)[2]
    /\ parPc' = IF NextPixel(drawX, drawY)[2] < height THEN "draw" ELSE "done"
    /\ UNCHANGED <<width, height, max_workers, scene, seqPc, seqX, seqY, seqPlots,
                   task, future, yielded, row_results, writes,
                   traceVars, lightVars, planeVars, lightingVars>>

-----------------------------------------------------------------------------
(* Vector algebra.  Lengths are counted in units of 1e-4, the offset epsilon of *)
(* trace_ray; directions and normals are unit vectors along a coordinate axis,  *)
(* so that every square root and every division of the code is exact.          *)

Abs(n) == IF n < 0 THEN -n ELSE n

\* math.sqrt of a perfect square
Sqrt(n) == CHOOSE k \in 0..n : k * k = n

\* a / b where b divides a
Quot(a, b) == CHOOSE q \in (-Abs(a))..Abs(a) : q * b = a

Vector(x, y, z) == <<x, y, z>>

dot(a, b) == a[1] * b[1] + a[2] * b[2] + a[3] * b[3]
add(a, b) == <<a[1] + b[1], a[2] + b[2], a[3] + b[3]>>
sub(a, b) == <<a[1] - b[1], a[2] - b[2], a[3] - b[3]>>
mul_scalar(v, k) == <<v[1] * k, v[2] * k, v[3] * k>>
opposite(v) == <<-v[1], -v[2], -v[3]>>
length(v) == Sqrt(dot(v, v))

\* the zero vector is returned as it is
normalize(v) ==
    LET l == length(v)
    IN IF l = 0 THEN v ELSE <<Quot(v[1], l), Quot(v[2], l), Quot(v[3], l)>>

-----------------------------------------------------------------------------
(* Scene objects *)

\* SceneObject.__init__: the axis is normalized
SceneObject(kind, color, specular, axis, reflective) ==
    [kind |-> kind, color |-> color, specular |-> specular,
     axis |-> normalize(axis), reflective |-> reflective,
     center |-> <<0, 0, 0>>, radius |-> 0, height |-> 0, normal |-> <<0, 0, 0>>]

Sphere(center, radius, color, specular, axis, reflective) ==
    [SceneObject("Sphere", color, specular, axis, reflective)
        EXCEPT !.center = center, !.radius = radius]

\* base_center is kept in the field center
Cylinder(base_center, axis, radius, h, color, specular, reflective) ==
    [SceneObject("Cylinder", color, specular, axis, reflective)
        EXCEPT !.center = base_center, !.radius = radius, !.height = h]

\* Plane.__init__: self.point = point; self.normal = self.axis.normalize()
Plane(point, normal, color, specular, axis, reflective) ==
    LET base == SceneObject("Plane", color, specular, axis, reflective)
    IN [base EXCEPT !.center = point, !.normal = normalize(base.axis)]

\* what intersect ends with: None, a tuple of roots, or an exception
NoIntersection == [tag |-> "None", ts |-> <<>>]
Roots(ts) == [tag |-> "roots", ts |-> ts]
Raises == [tag |-> "raise", ts |-> <<>>]

\* Sphere.intersect
SphereIntersect(obj, O, D) ==
    LET CO == sub(O, obj.center)
        a == dot(D, D)
        b == 2 * dot(D, CO)
        c == dot(CO, CO) - obj.radius * obj.radius
        discriminant == b * b - 4 * a * c
    IN IF discriminant < 0 THEN NoIntersection
       ELSE IF 2 * a = 0 THEN Raises
       ELSE LET sqrt_disc == Sqrt(discriminant)
            IN Roots(<<Quot(-b + sqrt_disc, 2 * a), Quot(-b - sqrt_disc, 2 * a)>>)

\* sorted(ts), by insertion
RECURSIVE Sorted(_)
Insert(t, ts) ==
    LET k == Cardinality({i \in 1..Len(ts) : ts[i] <= t})
    IN SubSeq(ts, 1, k) \o <<t>> \o SubSeq(ts, k + 1, Len(ts))
Sorted(ts) == IF ts = <<>> THEN <<>> ELSE Insert(ts[1], Sorted(Tail(ts)))

\* the lateral roots of Cylinder.intersect whose height lies in [0, self.height]
CylinderSide(obj, O, D, a, b, sqrt_disc) ==
    LET roots == <<Quot(-b - sqrt_disc, 2 * a), Quot(-b + sqrt_disc, 2 * a)>>
        h(t) == dot(sub(add(O, mul_scalar(D, t)), obj.center), obj.axis)
    IN SelectSeq(roots, LAMBDA t : 0 <= h(t) /\ h(t) <= obj.height)

\* one cap of Cylinder.intersect; abs(denom) > 1e-6 is denom # 0 for whole numbers
CylinderCap(obj, O, D, cap_h, cap_normal) ==
    LET denom == dot(D, cap_normal)
        cap_center == add(obj.center, mul_scalar(obj.axis, cap_h))
    IN IF denom = 0 THEN <<>>
       ELSE LET t == Quot(dot(sub(cap_center, O), cap_normal), denom)
                P == add(O, mul_scalar(D, t))
                d == sub(sub(P, cap_center), mul_scalar(obj.axis, 0))
            \* d.length() <= self.radius, compared through the squares
            IN IF t > 0 /\ dot(d, d) <= obj.radius * obj.radius THEN <<t>> ELSE <<>>

\* Cylinder.intersect
CylinderIntersect(obj, O, D) ==
    LET axis == obj.axis
        CO == sub(O, obj.center)
        D_proj == sub(D, mul_scalar(axis, dot(D, axis)))
        CO_proj == sub(CO, mul_scalar(axis, dot(CO, axis)))
        a == dot(D_proj, D_proj)
        b == 2 * dot(D_proj, CO_proj)
        c == dot(CO_proj, CO_proj) - obj.radius * obj.radius
        disc == b * b - 4 * a * c
    IN IF disc >= 0 /\ 2 * a = 0 THEN Raises      \* (-b - sqrt_disc) / (2*a)
       ELSE LET t_side == IF disc >= 0 THEN CylinderSide(obj, O, D, a, b, Sqrt(disc))
                          ELSE <<>>
                t_caps == CylinderCap(obj, O, D, 0, opposite(axis))
                          \o CylinderCap(obj, O, D, obj.height, axis)
                t_all == t_side \o t_caps
            IN IF t_all = <<>> THEN NoIntersection ELSE Roots(Sorted(t_all))

\* Plane.intersect; abs(denom) < 1e-6 is denom = 0 for whole numbers
PlaneIntersect(obj, O, D) ==
    LET denom == dot(D, obj.normal)
    IN IF denom = 0 THEN NoIntersection
       ELSE LET t == Quot(dot(sub(obj.center, O), obj.normal), denom)
            IN IF t < 0 THEN NoIntersection ELSE Roots(<<t>>)

\* obj.intersect(O, D)
intersect(obj, O, D) ==
    CASE obj.kind = "Sphere" -> SphereIntersect(obj, O, D)
      [] obj.kind = "Cylinder" -> CylinderIntersect(obj, O, D)
      [] obj.kind = "Plane" -> PlaneIntersect(obj, O, D)

\* obj.normal_at(P); abs(h) < 1e-6 is h = 0 for whole numbers of units
normal_at(obj, P) ==
    CASE obj.kind = "Sphere" -> normalize(sub(P, obj.center))
      [] obj.kind = "Cylinder" ->
            LET h == dot(sub(P, obj.center), obj.axis)
            IN IF h = 0 THEN opposite(obj.axis)
               ELSE IF h - obj.height = 0 THEN obj.axis
               ELSE normalize(sub(P, add(obj.center, mul_scalar(obj.axis, h))))
      [] obj.kind = "Plane" -> obj.normal

-----------------------------------------------------------------------------
(* Lights.  An intensity is counted in units of 1/IntensityDen.                *)

IntensityDen == 4

\* what a constructor ends with
Built(obj) == [ok |-> TRUE, error |-> "", obj |-> obj]
Failed(error) == [ok |-> FALSE, error |-> error,
                  obj |-> [type |-> "", intensity |-> 0, position |-> <<>>, direction |-> <<>>]]

\* Light.__init__: if not (0.0 <= intensity <= 1.0): raise ValueError
LightUpperOnly(type_, intensity) ==
    IF ~(intensity <= IntensityDen)
    THEN Failed("ValueError")
    ELSE Built([type |-> type_, intensity |-> intensity,
                position |-> <<>>, direction |-> <<>>])
Light(type_, intensity) ==
    IF ~(0 <= intensity /\ intensity <= IntensityDen)
    THEN Failed("ValueError")
    ELSE Built([type |-> type_, intensity |-> intensity,
                position |-> <<>>, direction |-> <<>>])

AmbientLight(intensity) == Light("ambient", intensity)

\* PointLight.__init__: the position is a list or tuple of three elements
PointLight(intensity, position) ==
    LET base == Light("point", intensity)
    IN IF ~base.ok THEN base
       ELSE IF Len(position) # 3 THEN Failed("TypeError")
       ELSE Built([base.obj EXCEPT !.position = Vector(position[1], position[2], position[3])])

\* DirectionalLight.__init__: the direction is a list or tuple of three elements
DirectionalLight(intensity, direction) ==
    LET base == Light("directional", intensity)
    IN IF ~base.ok THEN base
       ELSE IF Len(direction) # 3 THEN Failed("TypeError")
       ELSE Built([base.obj EXCEPT
                      !.direction = Vector(direction[1], direction[2], direction[3])])

-----------------------------------------------------------------------------
(* ComputeLighting and scale_rgb *)

Min(a, b) == IF a <= b THEN a ELSE b
Max(a, b) == IF a >= b THEN a ELSE b

\* base ** s for a whole exponent s >= 0
RECURSIVE Pow(_, _)
Pow(base, s) == IF s = 0 THEN 1 ELSE base * Pow(base, s - 1)

\* what one light adds to the intensity, in units of 1/IntensityDen
LightTermUnguarded(light, P, N, V, s) ==
    IF light.type = "ambient" THEN light.intensity
    ELSE LET L == IF light.type = "point" THEN normalize(sub(light.position, P))
                  ELSE normalize(light.direction)
             n_dot_l == dot(N, L)
             diffuse == light.intensity * n_dot_l
             R == sub(mul_scalar(N, 2 * n_dot_l), L)
             r_dot_v == dot(R, V)
             specular == IF s # -1 /\ r_dot_v > 0 THEN light.intensity * Pow(r_dot_v, s)
                         ELSE 0
         IN diffuse + specular
LightTerm(light, P, N, V, s) ==
    IF light.type = "ambient" THEN light.intensity
    ELSE LET L == IF light.type = "point" THEN normalize(sub(light.position, P))
                  ELSE normalize(light.direction)
             n_dot_l == dot(N, L)
             diffuse == IF n_dot_l > 0 THEN light.intensity * n_dot_l ELSE 0
             R == sub(mul_scalar(N, 2 * n_dot_l), L)
             r_dot_v == dot(R, V)
             specular == IF s # -1 /\ r_dot_v > 0 THEN light.intensity * Pow(r_dot_v, s)
                         ELSE 0
         IN diffuse + specular

\* for light in scene.lights: intensity += ...
RECURSIVE SumLights(_, _, _, _, _)
SumLights(ls, P, N, V, s) ==
    IF ls = <<>> THEN 0
    ELSE LightTerm(ls[1], P, N, V, s) + SumLights(Tail(ls), P, N, V, s)

\* ComputeLighting: min(1.0, intensity)
ComputeLighting(P, N, sc, V, s) == Min(IntensityDen, SumLights(sc.lights, P, N, V, s))

\* round(n / d) for n >= 0 and d > 0: Python rounds a half to the even neighbour
Round(n, d) ==
    LET q == n \div d
        r == n % d
    IN IF 2 * r < d THEN q
       ELSE IF 2 * r > d THEN q + 1
       ELSE IF q % 2 = 0 THEN q ELSE q + 1

\* scale_rgb(color, scalar), the scalar in units of 1/IntensityDen
scale_rgb(color, scalar) ==
    [i \in 1..3 |-> Min(255, Max(0, Round(color[i] * scalar, IntensityDen)))]

-----------------------------------------------------------------------------
(* trace_ray.  A reflective fraction is counted in units of 1/ReflDen.         *)

ReflDen == 4
MAX_DEPTH == 3
epsilon == 1            \* 1e-4, the unit of length
Infinity == 1000000     \* float('inf'): above every root of the model

BLACK == <<0, 0, 0>>

\* reflect(D, N) = D - N * 2 * D.dot(N)
reflect(D, N) == sub(D, mul_scalar(mul_scalar(N, 2), dot(D, N)))

\* if depth > MAX_DEPTH: return
DepthExhaustedLate(depth) == depth > MAX_DEPTH + 1
DepthExhausted(depth) == depth > MAX_DEPTH

\* if t_min <= t <= t_max and t < closest_t
CloserOrEqual(t, t_min, t_max, closest_t) == t_min <= t /\ t <= t_max /\ t <= closest_t
Closer(t, t_min, t_max, closest_t) == t_min <= t /\ t <= t_max /\ t < closest_t

\* for t in ts: ... closest_t = t; closest_obj = obj   (obj is the i-th object)
RECURSIVE ScanRoots(_, _, _, _, _)
ScanRoots(ts, i, t_min, t_max, best) ==
    IF ts = <<>> THEN best
    ELSE ScanRoots(Tail(ts), i, t_min, t_max,
                   IF Closer(ts[1], t_min, t_max, best.closest_t)
                   THEN [closest_t |-> ts[1], closest_obj |-> i]
                   ELSE best)

\* for obj in scene.objects: ts = obj.intersect(O, D); if ts is None: continue; ...
\* closest_obj is the position of the object in scene.objects, 0 for None;
\* ScanObject is the body of the loop for the i-th object, ts its intersect result
RECURSIVE ScanObjects(_, _, _, _, _, _, _)
ScanObject(objects, i, O, D, t_min, t_max, best, ts) ==
    IF ts.tag = "raise"
    THEN [raised |-> TRUE, closest_t |-> best.closest_t, closest_obj |-> best.closest_obj]
    ELSE ScanObjects(objects, i + 1, O, D, t_min, t_max,
                     IF ts.tag = "None" THEN best
                     ELSE ScanRoots(ts.ts, i, t_min, t_max, best))
ScanObjects(objects, i, O, D, t_min, t_max, best) ==
    IF i > Len(objects)
    THEN [raised |-> FALSE, closest_t |-> best.closest_t, closest_obj |-> best.closest_obj]
    ELSE ScanObject(objects, i, O, D, t_min, t_max, best, intersect(objects[i], O, D))

\* int(local_color[i] * (1 - reflective) + reflected_color[i] * reflective)
BlendSwapped(local_color, reflected_color, reflective) ==
    [i \in 1..3 |-> (local_color[i] * reflective
                     + reflected_color[i] * (ReflDen - reflective)) \div ReflDen]
Blend(local_color, reflected_color, reflective) ==
    [i \in 1..3 |-> (local_color[i] * (ReflDen - reflective)
                     + reflected_color[i] * reflective) \div ReflDen]

\* The result of a call: the colour returned (or raised), with a record of the call:
\* calls, the depth of every call of trace_ray made, in order; scans, the depths at
\* which the loop over the objects ran; closest_obj, closest_t, local_color and, when
\* the call recursed, reflected_color, the colour the recursive call returned.
Outcome(raised, color, calls, scans, near, local_color, recursed, reflected_color) ==
    [raised |-> raised, color |-> color, calls |-> calls, scans |-> scans,
     closest_obj |-> near.closest_obj, closest_t |-> near.closest_t,
     local_color |-> local_color, recursed |-> recursed,
     reflected_color |-> reflected_color]

Nothing == [closest_t |-> Infinity, closest_obj |-> 0]

RECURSIVE trace_ray(_, _, _, _, _, _)

\* "Mix colors": the local colour blended with the colour the recursive call returned
MixColors(depth, near, closest_obj, local_color, reflected) ==
    IF reflected.raised
    THEN Outcome(TRUE, BLACK, <<depth>> \o reflected.calls, <<depth>> \o reflected.scans,
                 near, local_color, TRUE, BLACK)
    ELSE Outcome(FALSE, Blend(local_color, reflected.color, closest_obj.reflective),
                 <<depth>> \o reflected.calls, <<depth>> \o reflected.scans,
                 near, local_color, TRUE, reflected.color)

\* trace_ray(P + R * epsilon, R, t_min, t_max, scene, depth + 1)
ReflectedRay(P, R, t_min, t_max, sc, depth) ==
    trace_ray(add(P, mul_scalar(R, epsilon)), R, t_min, t_max, sc, depth + 1)

\* "Handle reflection": reflective = getattr(closest_obj, "reflective", 0.0)
HandleReflection(D, t_min, t_max, sc, depth, near, closest_obj, P, N, local_color) ==
    IF closest_obj.reflective > 0
    THEN MixColors(depth, near, closest_obj, local_color,
                   ReflectedRay(P, normalize(reflect(D, N)), t_min, t_max, sc, depth))
    ELSE Outcome(FALSE, local_color, <<depth>>, <<depth>>, near, local_color, FALSE, BLACK)

\* local_color = scale_rgb(closest_obj.color, ComputeLighting(P, N, scene, V, specular))
\* with the view vector V = -D
LocalColor(closest_obj, P, N, D, sc) ==
    scale_rgb(closest_obj.color,
              ComputeLighting(P, N, sc, opposite(D), closest_obj.specular))

\* the hit at point P of closest_obj, with the surface normal N
ShadeAt(D, t_min, t_max, sc, depth, near, closest_obj, P, N) ==
    HandleReflection(D, t_min, t_max, sc, depth, near, closest_obj, P, N,
                     LocalColor(closest_obj, P, N, D, sc))

\* N = closest_obj.normal_at(P)
ShadeHit(D, t_min, t_max, sc, depth, near, closest_obj, P) ==
    ShadeAt(D, t_min, t_max, sc, depth, near, closest_obj, P, normal_at(closest_obj, P))

\* trace_ray after the loop over the objects, near being closest_t and closest_obj
Shade(O, D, t_min, t_max, sc, depth, near) ==
    IF near.raised
    THEN Outcome(TRUE, BLACK, <<depth>>, <<depth>>, near, BLACK, FALSE, BLACK)
    ELSE IF near.closest_obj = 0
    THEN Outcome(FALSE, <<255, 255, 255>>, <<depth>>, <<depth>>, near, BLACK, FALSE, BLACK)
    ELSE ShadeHit(D, t_min, t_max, sc, depth, near, sc.objects[near.closest_obj],
                  add(O, mul_scalar(D, near.closest_t)))

trace_ray(O, D, t_min, t_max, sc, depth) ==
    IF DepthExhausted(depth)
    THEN Outcome(FALSE, <<0, 0, 0>>, <<depth>>, <<>>, Nothing, BLACK, FALSE, BLACK)
    ELSE Shade(O, D, t_min, t_max, sc, depth,
               ScanObjects(sc.objects, 1, O, D, t_min, t_max, Nothing))

-----------------------------------------------------------------------------
(* The calls of trace_ray that are checked: rays along the z axis, through a   *)
(* scene of objects placed on that axis.                                        *)

MaxObjs == 2           \* largest number of objects of a scene

GREEN == <<0, 255, 0>>
BLUE == <<0, 0, 255>>
TAN == <<210, 180, 141>>
DefaultAxis == Vector(0, 1, 0)

ObjectPool == {
    Sphere(Vector(0, 0, 6), 2, RED, 10, DefaultAxis, 0),
    Sphere(Vector(0, 0, 6), 2, GREEN, -1, DefaultAxis, ReflDen),
    Sphere(Vector(0, 0, 3), 1, BLUE, 10, DefaultAxis, 1),
    Sphere(Vector(2, 0, 3), 2, TAN, 2, DefaultAxis, 0),
    Plane(Vector(0, 0, 4), Vector(0, 0, -1), GREEN, -1, Vector(0, 0, 1), ReflDen),
    Plane(Vector(0, 0, 4), Vector(0, 0, -1), TAN, 10, DefaultAxis, 0),
    Plane(Vector(0, 0, -2), Vector(0, 0, 1), TAN, 10, Vector(0, 0, 2), ReflDen),
    Cylinder(Vector(0, 0, 8), Vector(0, 0, 1), 1, 2, RED, 10, 0),
    Cylinder(Vector(-1, 0, 6), Vector(1, 0, 0), 2, 2, TAN, -1, 0)
}

LightPool == {
    <<>>,
    <<AmbientLight(1).obj>>,
    <<AmbientLight(1).obj, DirectionalLight(3, <<0, 0, -2>>).obj>>,
    <<PointLight(IntensityDen, <<0, 0, 0>>).obj, AmbientLight(2).obj>>
}

RECURSIVE SeqsUpTo(_, _)
SeqsUpTo(S, n) ==
    IF n = 0 THEN {<<>>}
    ELSE LET shorter == SeqsUpTo(S, n - 1)
         IN shorter \cup {Append(q, e) : q \in shorter, e \in S}

Scenes == [objects : SeqsUpTo(ObjectPool, MaxObjs), lights : LightPool]

Calls == [O : {Vector(0, 0, 0), Vector(0, 0, 6)},
          D : {Vector(0, 0, 1), Vector(0, 0, -1)},
          t_min : {0, 3},
          t_max : {5, Infinity},
          scene : Scenes,
          depth : {0, MAX_DEPTH + 1}]

-----------------------------------------------------------------------------
(* The renders of one scene: render_sequential, then render_parallel_rows *)

RenderInit ==
    /\ width \in 1..MaxW
    /\ height \in 1..MaxH
    /\ max_workers \in 1..MaxWorkers
    /\ \E col \in [PrimaryRays(width, height) -> RenderColors],
          bad \in PrimaryRays(width, height) \cup {NoRay} :
          scene = [d \in PrimaryRays(width, height) |->
                      IF d = bad THEN ZeroDivisionError ELSE Returned(col[d])]
    /\ seqPc = "run"
    /\ seqX = 0
    /\ seqY = 0
    /\ seqPlots = <<>>
    /\ parPc = "idle"
    /\ task = [y \in Rows |-> "pending"]
    /\ future = [y \in Rows |-> [raised |-> FALSE, y |-> y, row_colors |-> None]]
    /\ yielded = <<>>
    /\ row_results = <<>>
    /\ writes = [y \in Rows |-> 0]
    /\ drawX = 0
    /\ drawY = 0
    /\ parPlots = <<>>

\* the variables of the other parts, in a specification that does not run them
NoCall == [O |-> <<0, 0, 0>>, D |-> <<0, 0, 1>>, t_min |-> 0, t_max |-> 0,
           scene |-> [objects |-> <<>>, lights |-> <<>>], depth |-> 0]
NoResult == Outcome(FALSE, BLACK, <<>>, <<>>, Nothing, BLACK, FALSE, BLACK)
NoAttempt == [class |-> "", intensity |-> 0, vector |-> <<>>, made |-> Failed("")]

NoPlane == [point |-> <<0, 0, 0>>, normal |-> <<0, 0, 0>>, axis |-> <<0, 0, 0>>,
            obj |-> SceneObject("", BLACK, 0, <<0, 0, 0>>, 0)]
NoPlaneCall == [method |-> "", O |-> <<0, 0, 0>>, D |-> <<0, 0, 0>>, P |-> <<0, 0, 0>>,
                ts |-> NoIntersection, N |-> <<0, 0, 0>>]
NoLighting == [P |-> <<0, 0, 0>>, N |-> <<0, 0, 0>>, V |-> <<0, 0, 0>>, s |-> 0,
               scene |-> [objects |-> <<>>, lights |-> <<>>]]

TraceIdle == call = NoCall /\ tracePc = "idle" /\ result = NoResult
LightIdle == lights = <<>> /\ attempt = NoAttempt
PlaneIdle == plane = NoPlane /\ planeCall = NoPlaneCall
LightingIdle == lighting = NoLighting /\ lightingPc = "idle" /\ lightingOut = 0
RenderIdle ==
    /\ width = 1 /\ height = 1 /\ max_workers = 1
    /\ scene = [d \in PrimaryRays(1, 1) |-> Returned(BACKGROUND)]
    /\ seqPc = "idle" /\ seqX = 0 /\ seqY = 0 /\ seqPlots = <<>>
    /\ parPc = "off" /\ task = <<>> /\ future = <<>> /\ yielded = <<>>
    /\ row_results = <<>> /\ writes = <<>> /\ drawX = 0 /\ drawY = 0 /\ parPlots = <<>>

Init == RenderInit /\ TraceIdle /\ LightIdle /\ PlaneIdle /\ LightingIdle

Next ==
    \/ SeqPlot
    \/ SeqRaise
    \/ Submit
    \/ TaskStart
    \/ \E y \in Rows : TaskFinish(y)
    \/ \E f \in Rows : Collect(f)
    \/ \E f \in Rows : CollectRaise(f)
    \/ ExitPool
    \/ ExitPoolRaise
    \/ DrawPlot

Spec == Init /\ [][Next]_vars

-----------------------------------------------------------------------------
(* One call of trace_ray *)

TraceInit == call \in Calls /\ tracePc = "call" /\ result = NoResult

Traced == trace_ray(call.O, call.D, call.t_min, call.t_max, call.scene, call.depth)

\* the call returns a colour
TraceReturn ==
    /\ tracePc = "call"
    /\ \E r \in {Traced} :
          /\ ~r.raised
          /\ tracePc' = "returned"
          /\ result' = r
    /\ UNCHANGED <<call, renderVars, lightVars, planeVars, lightingVars>>

\* the call lets the exception of an intersect through
TraceRaise ==
    /\ tracePc = "call"
    /\ \E r \in {Traced} :
          /\ r.raised
          /\ tracePc' = "raised"
          /\ result' = r
    /\ UNCHANGED <<call, renderVars, lightVars, planeVars, lightingVars>>

InitTrace == TraceInit /\ RenderIdle /\ LightIdle /\ PlaneIdle /\ LightingIdle

NextTrace == TraceReturn \/ TraceRaise

SpecTrace == InitTrace /\ [][NextTrace]_vars

-----------------------------------------------------------------------------
(* The construction of the lights of a scene *)

MaxLights == 2         \* largest number of lights of a scene

\* intensities from -1/IntensityDen to 1 + 1/IntensityDen
Intensities == (-1)..(IntensityDen + 1)
\* a position or direction: well-formed, or a tuple of two elements
VectorArgs == {<<0, 0, -2>>, <<1, 2>>}

\* light = AmbientLight(intensity), appended to the lights of the scene when it is built
NewAmbientLight ==
    /\ Len(lights) < MaxLights
    /\ \E i \in Intensities : \E made \in {AmbientLight(i)} :
          /\ attempt' = [class |-> "AmbientLight", intensity |-> i, vector |-> <<>>,
                         made |-> made]
          /\ lights' = IF made.ok THEN Append(lights, made.obj) ELSE lights
    /\ UNCHANGED <<renderVars, traceVars, planeVars, lightingVars>>

\* light = PointLight(intensity, position)
NewPointLight ==
    /\ Len(lights) < MaxLights
    /\ \E i \in Intensities, v \in VectorArgs : \E made \in {PointLight(i, v)} :
          /\ attempt' = [class |-> "PointLight", intensity |-> i, vector |-> v,
                         made |-> made]
          /\ lights' = IF made.ok THEN Append(lights, made.obj) ELSE lights
    /\ UNCHANGED <<renderVars, traceVars, planeVars, lightingVars>>

\* light = DirectionalLight(intensity, direction)
NewDirectionalLight ==
    /\ Len(lights) < MaxLights
    /\ \E i \in Intensities, v \in VectorArgs : \E made \in {DirectionalLight(i, v)} :
          /\ attempt' = [class |-> "DirectionalLight", intensity |-> i, vector |-> v,
                         made |-> made]
          /\ lights' = IF made.ok THEN Append(lights, made.obj) ELSE lights
    /\ UNCHANGED <<renderVars, traceVars, planeVars, lightingVars>>

InitLight ==
    lights = <<>> /\ attempt = NoAttempt /\ RenderIdle /\ TraceIdle /\ PlaneIdle /\ LightingIdle

NextLight == NewAmbientLight \/ NewPointLight \/ NewDirectionalLight

SpecLight == InitLight /\ [][NextLight]_vars

-----------------------------------------------------------------------------
(* A Plane, its intersect and its normal_at *)

PlanePoints == {Vector(0, 0, 4), Vector(0, 2, 0)}
PlaneNormals == {Vector(0, 0, 1), Vector(0, 0, -2), Vector(0, 1, 0)}
\* the axis argument: left at its default, or given
PlaneAxes == {DefaultAxis, Vector(0, 0, 2)}
RayOrigins == {Vector(0, 0, 0), Vector(0, 0, 6), Vector(0, 3, 0)}
RayDirections == {Vector(0, 0, 1), Vector(0, 0, -1), Vector(0, 1, 0), Vector(0, -1, 0),
                  Vector(1, 0, 0)}
SurfacePoints == {Vector(0, 0, 4), Vector(1, 2, 0), Vector(3, 0, 4)}

\* plane = Plane(point, normal, axis=axis)
PlaneInit ==
    /\ \E point \in PlanePoints, normal \in PlaneNormals, axis \in PlaneAxes :
          plane = [point |-> point, normal |-> normal, axis |-> axis,
                   obj |-> Plane(point, normal, RED, 500, axis, 0)]
    /\ planeCall = NoPlaneCall

\* plane.intersect(O, D)
PlaneIntersectCall ==
    /\ \E O \in RayOrigins, D \in RayDirections :
          planeCall' = [method |-> "intersect", O |-> O, D |-> D, P |-> <<0, 0, 0>>,
                        ts |-> intersect(plane.obj, O, D), N |-> <<0, 0, 0>>]
    /\ UNCHANGED <<plane, renderVars, traceVars, lightVars, lightingVars>>

\* plane.normal_at(P)
PlaneNormalAtCall ==
    /\ \E P \in SurfacePoints :
          planeCall' = [method |-> "normal_at", O |-> <<0, 0, 0>>, D |-> <<0, 0, 0>>,
                        P |-> P, ts |-> NoIntersection, N |-> normal_at(plane.obj, P)]
    /\ UNCHANGED <<plane, renderVars, traceVars, lightVars, lightingVars>>

InitPlane == PlaneInit /\ RenderIdle /\ TraceIdle /\ LightIdle /\ LightingIdle

NextPlane == PlaneIntersectCall \/ PlaneNormalAtCall

SpecPlane == InitPlane /\ [][NextPlane]_vars

-----------------------------------------------------------------------------
(* One call of ComputeLighting *)

\* the lights a scene is made of: each one built by its constructor
LightObjects == {
    AmbientLight(1).obj,
    AmbientLight(3).obj,
    DirectionalLight(3, <<0, 0, -2>>).obj,
    PointLight(IntensityDen, <<0, 0, 0>>).obj,
    PointLight(2, <<0, 0, 8>>).obj
}

LightingCalls == [P : {Vector(0, 0, 4), Vector(0, 0, 0)},
                  N : {Vector(0, 0, -1), Vector(0, 0, 1), Vector(0, 1, 0)},
                  V : {Vector(0, 0, -1), Vector(0, 0, 1)},
                  s : {-1, 0, 2, 10},
                  scene : [objects : {<<>>}, lights : SeqsUpTo(LightObjects, MaxLights)]]

LightingInit == lighting \in LightingCalls /\ lightingPc = "call" /\ lightingOut = 0

\* intensity = ComputeLighting(P, N, scene, V, s)
ComputeLightingCall ==
    /\ lightingPc = "call"
    /\ lightingOut' = ComputeLighting(lighting.P, lighting.N, lighting.scene,
                                      lighting.V, lighting.s)
    /\ lightingPc' = "returned"
    /\ UNCHANGED <<lighting, renderVars, traceVars, lightVars, planeVars>>

InitLighting == LightingInit /\ RenderIdle /\ TraceIdle /\ LightIdle /\ PlaneIdle

NextLighting == ComputeLightingCall

SpecLighting == InitLighting /\ [][NextLighting]_vars

-----------------------------------------------------------------------------
(* Properties of the renderers (specification Spec) *)

Pixels == {<<x, y>> : x \in 0..(width - 1), y \in Rows}

\* the colour a sequence of plot calls leaves at each pixel of the surface
Surface(plots) ==
    [p \in Pixels |->
        LET at == {i \in 1..Len(plots) : plots[i].x = p[1] /\ plots[i].y = p[2]}
        IN IF at = {} THEN "unpainted"
           ELSE plots[CHOOSE i \in at : \A j \in at : j <= i].color]

Coords(plots) == [i \in 1..Len(plots) |-> <<plots[i].x, plots[i].y>>]

\* every pixel once, row after row, x ascending within a row
RowMajor == [i \in 1..(width * height) |-> <<(i - 1) % width, (i - 1) \div width>>]

IsPrefix(p, q) == Len(p) <= Len(q) /\ \A i \in 1..Len(p) : p[i] = q[i]

SeqEnded == seqPc \in {"done", "raised"}
ParEnded == parPc \in {"done", "raised"}

\* C1: for every scene, width and height, once render_sequential and
\* render_parallel_rows have ended they have left the same colour at every pixel of
\* the display surface, whatever the number of workers and the completion order.
C1_SameSurface ==
    (SeqEnded /\ ParEnded) => Surface(seqPlots) = Surface(parPlots)

\* C2: a slot of row_results is written at most once and only with the colours
\* render_row computed for its own row, and once the compute phase has ended and
\* the drawing phase is entered every slot is filled, written exactly once.
C2_RowSlots ==
    parPc \in {"compute", "shutdown", "draw", "done", "raised"} =>
        /\ \A y \in Rows :
              IF row_results[y] = None
              THEN writes[y] = 0
              ELSE /\ writes[y] = 1
                   /\ ~render_row(y).raised
                   /\ row_results[y] = render_row(y).row_colors
        /\ parPc \in {"draw", "done"} => \A y \in Rows : row_results[y] # None

\* C2 witness: the drawing phase is reached after the second row's task was
\* collected before the first row's, the two rows holding different colours
C2_Witness ==
    /\ parPc = "draw"
    /\ height = 2
    /\ yielded = <<1, 0>>
    /\ row_results[0] # row_results[1]

\* C3: render_parallel_rows plots nothing before every row task has completed and
\* its result has been stored; every plot is made by the orchestrating thread, while
\* no row task is running.
C3_DrawAfterCompute ==
    (parPc \in {"compute", "shutdown", "draw", "done", "raised"} /\ parPlots # <<>>) =>
        /\ \A y \in Rows : task[y] = "finished" /\ row_results[y] # None
        /\ Running = {}
        /\ \A i \in 1..Len(parPlots) : parPlots[i].by = "main"

\* C3 witness: pixels are plotted after two row tasks ran on two workers
C3_Witness ==
    /\ parPlots # <<>>
    /\ height = 2
    /\ max_workers = 2
    /\ parPc = "draw"

\* C4: a completed render has called win.plot exactly once for every pixel of
\* [0,width) x [0,height), for no other coordinate, in row-major order; a render
\* under way has plotted a prefix of that order.
C4_RowMajorOnce ==
    /\ IsPrefix(Coords(seqPlots), RowMajor)
    /\ IsPrefix(Coords(parPlots), RowMajor)
    /\ seqPc = "done" => Coords(seqPlots) = RowMajor
    /\ parPc = "done" => Coords(parPlots) = RowMajor

\* C4 witness: both renders of an image of two rows and two columns are complete
C4_Witness ==
    /\ seqPc = "done"
    /\ parPc = "done"
    /\ width = 2
    /\ height = 2
    /\ Len(parPlots) = 4

-----------------------------------------------------------------------------
(* Properties of trace_ray (specification SpecTrace) *)

TraceEnded == tracePc \in {"returned", "raised"}

\* C5: a top-level call of trace_ray (depth 0) ends after at most MAX_DEPTH + 1
\* recursive calls, the depth growing by exactly 1 from each call to the next, and
\* the loop over the objects never runs at a depth above MAX_DEPTH.
C5_DepthBound ==
    (TraceEnded /\ call.depth = 0) =>
        /\ Len(result.calls) <= 1 + (MAX_DEPTH + 1)
        /\ \A i \in 1..Len(result.calls) : result.calls[i] = i - 1
        /\ \A i \in 1..Len(result.scans) : result.scans[i] <= MAX_DEPTH

\* C5 witness: mirrors facing each other take the recursion to its last call
C5_Witness ==
    /\ tracePc = "returned"
    /\ call.depth = 0
    /\ Len(result.calls) = 1 + (MAX_DEPTH + 1)
    /\ Len(result.scans) = MAX_DEPTH + 1

\* C6: a call of trace_ray entered with depth > MAX_DEPTH returns the background
\* colour (255,255,255), the colour of a ray that hits no object.
C6_ExhaustedIsBackground ==
    (tracePc = "returned" /\ call.depth > MAX_DEPTH) => result.color = BACKGROUND

HitObject == call.scene.objects[result.closest_obj]
HitPoint == add(call.O, mul_scalar(call.D, result.closest_t))

\* C7: when the nearest hit is an object with reflective = 0, trace_ray returns the
\* local colour scale_rgb(object.color, ComputeLighting(...)) and makes no recursive
\* call; when it is an object with reflective = 1, trace_ray returns the colour the
\* recursive call for the reflected ray returned.
C7_ReflectiveEnds ==
    (tracePc = "returned" /\ result.closest_obj # 0) =>
        /\ HitObject.reflective = 0 =>
              /\ result.color = LocalColor(HitObject, HitPoint,
                                           normal_at(HitObject, HitPoint), call.D,
                                           call.scene)
              /\ result.calls = <<call.depth>>
              /\ ~result.recursed
        /\ HitObject.reflective = ReflDen =>
              /\ result.recursed
              /\ Len(result.calls) > 1
              /\ result.color = result.reflected_color

\* C7 witness: a perfect mirror is hit whose local colour differs from the colour
\* that comes back along the reflected ray
C7_Witness ==
    /\ tracePc = "returned"
    /\ result.closest_obj # 0
    /\ HitObject.reflective = ReflDen
    /\ result.local_color # result.reflected_color
    /\ result.local_color # BLACK

\* C8: trace_ray returns a colour and never raises, for every scene of well-formed
\* primitives and every ray of non-zero direction.
C8_NeverRaises == tracePc # "raised"

\* the roots the i-th object returns for the ray of the call, and those in range
RootsOf(i) ==
    LET SetOf(ts) == {ts.ts[k] : k \in 1..Len(ts.ts)}
    IN SetOf(intersect(call.scene.objects[i], call.O, call.D))
InRange(i) == {t \in RootsOf(i) : call.t_min <= t /\ t <= call.t_max}
AllInRange == UNION {InRange(i) : i \in 1..Len(call.scene.objects)}
Least(S) == CHOOSE m \in S : \A t \in S : m <= t

\* C10: when some object has a root in [t_min, t_max], trace_ray shades the object
\* that owns the least such root over all objects and roots, and of the objects
\* that share this least root the one earliest in scene.objects; roots out of the
\* range select nothing.
C10_NearestHit ==
    (tracePc = "returned" /\ call.depth <= MAX_DEPTH) =>
        IF AllInRange = {}
        THEN result.closest_obj = 0 /\ result.color = BACKGROUND
        ELSE /\ result.closest_t = Least(AllInRange)
             /\ result.closest_obj =
                   Least({i \in 1..Len(call.scene.objects) : Least(AllInRange) \in InRange(i)})
             /\ result.local_color = LocalColor(HitObject, HitPoint,
                                                normal_at(HitObject, HitPoint), call.D,
                                                call.scene)

\* C10 witness: two objects share the least root in range, and the first object
\* has another root below t_min
C10_Witness ==
    /\ tracePc = "returned"
    /\ call.depth = 0
    /\ Len(call.scene.objects) = 2
    /\ AllInRange # {}
    /\ Least(AllInRange) \in InRange(1) \cap InRange(2)
    /\ \E t \in RootsOf(1) : t < call.t_min
    /\ call.scene.objects[1].color # call.scene.objects[2].color

-----------------------------------------------------------------------------
(* Properties of the lights (specification SpecLight) *)

\* C9: constructing a light with an intensity outside [0,1] fails with an error and
\* yields no light; every light of a scene has an intensity in [0,1].
C9_IntensityValidated ==
    /\ (attempt.class # "" /\ ~(0 <= attempt.intensity /\ attempt.intensity <= IntensityDen))
          => (~attempt.made.ok /\ attempt.made.error = "ValueError")
    /\ \A i \in 1..Len(lights) :
          0 <= lights[i].intensity /\ lights[i].intensity <= IntensityDen

\* C9 witness: a light was built, then a constructor was refused a negative intensity
C9_Witness ==
    /\ Len(lights) = 1
    /\ attempt.class = "PointLight"
    /\ attempt.intensity < 0
    /\ ~attempt.made.ok

-----------------------------------------------------------------------------
(* Properties of Plane (specification SpecPlane) *)

\* the unit normal of the plane as the claim has it: the normal given to Plane(...)
SuppliedNormal == normalize(plane.normal)

\* the root of the ray O + t*D on the plane through p with unit normal N
PlaneRoot(p, N, O, D) ==
    IF dot(D, N) = 0 THEN NoIntersection
    ELSE LET t == Quot(dot(sub(p, O), N), dot(D, N))
         IN IF t < 0 THEN NoIntersection ELSE Roots(<<t>>)

\* C11: for a Plane built with point p and normal n, intersect(O, D) returns no
\* intersection when D.N is zero or the root is negative and otherwise the single
\* root t = (p - O).N / (D.N), N being the normalized n given at construction;
\* normal_at returns this N for every point.
C11_PlaneOfSuppliedNormal ==
    /\ planeCall.method = "intersect" =>
          planeCall.ts = PlaneRoot(plane.point, SuppliedNormal, planeCall.O, planeCall.D)
    /\ planeCall.method = "normal_at" => planeCall.N = SuppliedNormal

-----------------------------------------------------------------------------
(* Properties of ComputeLighting (specification SpecLighting) *)

LightDirection(light) ==
    IF light.type = "point" THEN normalize(sub(light.position, lighting.P))
    ELSE normalize(light.direction)

\* the diffuse addend of a light: intensity * (N.L) when N.L > 0
Diffuse(light) ==
    LET n_dot_l == dot(lighting.N, LightDirection(light))
    IN IF n_dot_l > 0 THEN light.intensity * n_dot_l ELSE 0

\* the specular addend of a light: intensity * (R.V)^s when s # -1 and R.V > 0
Specular(light) ==
    LET L == LightDirection(light)
        R == sub(mul_scalar(lighting.N, 2 * dot(lighting.N, L)), L)
        r_dot_v == dot(R, lighting.V)
    IN IF lighting.s # -1 /\ r_dot_v > 0
       THEN light.intensity * Pow(r_dot_v, lighting.s) ELSE 0

Addends(light) ==
    IF light.type = "ambient" THEN <<light.intensity>>
    ELSE <<Diffuse(light), Specular(light)>>

RECURSIVE SumSeq(_)
SumSeq(q) == IF q = <<>> THEN 0 ELSE q[1] + SumSeq(Tail(q))

\* the addends of every light of the scene, in the order of scene.lights
RECURSIVE AllAddends(_)
AllAddends(ls) == IF ls = <<>> THEN <<>> ELSE Addends(ls[1]) \o AllAddends(Tail(ls))

AmbientOnly == \A i \in 1..Len(lighting.scene.lights) :
                   lighting.scene.lights[i].type = "ambient"

\* C12: ComputeLighting returns an intensity in [0,1]: every addend (ambient,
\* diffuse, specular) is non-negative, every light of the scene contributes, and
\* the sum is clamped above at 1; with ambient lights only the result is
\* min(1, sum of the ambient intensities) for every normal and view direction.
C12_LightingInUnitRange ==
    lightingPc = "returned" =>
        LET xs == AllAddends(lighting.scene.lights)
        IN /\ 0 <= lightingOut /\ lightingOut <= IntensityDen
           /\ \A i \in 1..Len(xs) : xs[i] >= 0
           /\ lightingOut = Min(IntensityDen, SumSeq(xs))
           /\ AmbientOnly =>
                 lightingOut =
                    Min(IntensityDen,
                        SumSeq([i \in 1..Len(lighting.scene.lights) |->
                                   lighting.scene.lights[i].intensity]))

\* C12 witness: an ambient light and a light with a diffuse and a specular addend
\* sum to more than 1, and the result is clamped
C12_Witness ==
    /\ lightingPc = "returned"
    /\ Len(lighting.scene.lights) = 2
    /\ lighting.scene.lights[1].type = "ambient"
    /\ lighting.scene.lights[2].type # "ambient"
    /\ Diffuse(lighting.scene.lights[2]) > 0
    /\ Specular(lighting.scene.lights[2]) > 0
    /\ SumSeq(AllAddends(lighting.scene.lights)) > IntensityDen
    /\ lightingOut = IntensityDen

====
